---- MODULE Spec2Model ----
(***************************************************************************)
(* Model of lab1-code/parser.py: the Lexer (character cursor, tokenize),   *)
(* the recursive-descent Parser (token cursor, call stack) and the entry   *)
(* point parse_expression_from_string that runs one after the other.       *)
(*                                                                         *)
(* A text is a sequence of one-character strings.  Python's None is        *)
(* NoneChar where a character is expected and None where a token, a token  *)
(* value or an object is expected.  A raised exception ends the run with   *)
(* result set to a record describing the exception.                        *)
(***************************************************************************)
EXTENDS Integers, Sequences, FiniteSets, TLC

VARIABLES text, lexer, lpc, num_str, start_pos, tokens, parser, stack, result, pc

vars == <<text, lexer, lpc, num_str, start_pos, tokens, parser, stack, result, pc>>

(***************************************************************************)
(* Bounds of the explored inputs.                                          *)
(***************************************************************************)
\* longest text over the full alphabet
MaxLen == 4
\* longest text over the characters of the expression language alone
MaxExprLen == 5

Digits == {"0", "1"}
Whitespace == {" "}
Symbols == {"+", "-", "*", "/", "(", ")"}
ExprAlphabet == Digits \cup Symbols
Alphabet == ExprAlphabet \cup Whitespace \cup {".", "&"}

TextsOver(A, n) == UNION {[1..k -> A] : k \in 0..n}
Texts == TextsOver(Alphabet, MaxLen) \cup TextsOver(ExprAlphabet, MaxExprLen)

NoneChar == "None"
None == [none |-> TRUE]

(***************************************************************************)
(* Characters: str.isspace, str.isdigit.                                   *)
(***************************************************************************)
isspace(c) == c \in Whitespace
isdigit(c) == c \in Digits

(***************************************************************************)
(* Numeric values.  An int is [isfloat |-> FALSE, m |-> n, e |-> 0]; a     *)
(* float is the decimal m * 10^-e with trailing zeros of the fraction      *)
(* removed, so that two lexemes give equal records exactly when float()    *)
(* gives equal doubles (the lexemes are far shorter than 15 digits).       *)
(***************************************************************************)
DigitVal(c) == IF c = "0" THEN 0 ELSE 1

RECURSIVE DecimalOf(_)
DecimalOf(s) ==
  IF s = <<>> THEN 0
  ELSE 10 * DecimalOf(SubSeq(s, 1, Len(s) - 1)) + DigitVal(s[Len(s)])

DotCount(s) == Cardinality({i \in 1..Len(s) : s[i] = "."})

RECURSIVE Normalize(_, _)
Normalize(m, e) ==
  IF e > 0 /\ m % 10 = 0 THEN Normalize(m \div 10, e - 1)
  ELSE [isfloat |-> TRUE, m |-> m, e |-> e]

\* int(num_str): num_str is a non-empty run of digits
IntOf(s) == [isfloat |-> FALSE, m |-> DecimalOf(s), e |-> 0]

\* float(num_str) accepts digits with one '.', here always after a digit
FloatAccepts(s) == DotCount(s) = 1

FloatOf(s) ==
  LET d == CHOOSE i \in 1..Len(s) : s[i] = "."
      digits == SubSeq(s, 1, d - 1) \o SubSeq(s, d + 1, Len(s))
  IN Normalize(DecimalOf(digits), Len(s) - d)

(***************************************************************************)
(* Tokens.                                                                 *)
(***************************************************************************)
TokenType == {"NUMBER", "PLUS", "MINUS", "MULTIPLY", "DIVIDE", "LPAREN", "RPAREN", "EOF"}

Token(type_, value, position) == [type |-> type_, value |-> value, position |-> position]

Str(c) == [str |-> c]

SymbolType(c) ==
  CASE c = "+" -> "PLUS"
    [] c = "-" -> "MINUS"
    [] c = "*" -> "MULTIPLY"
    [] c = "/" -> "DIVIDE"
    [] c = "(" -> "LPAREN"
    [] c = ")" -> "RPAREN"

(***************************************************************************)
(* Lexer.                                                                  *)
(***************************************************************************)
CharAt(t, p) == IF p < Len(t) THEN t[p + 1] ELSE NoneChar

NewLexer(t) == [text |-> t, position |-> 0, current_char |-> CharAt(t, 0)]

\* advance without the increment of position
LexerAdvance_Stuck(lx) == [lx EXCEPT !.current_char = CharAt(lx.text, lx.position)]

LexerAdvance(lx) ==
  [lx EXCEPT !.position = lx.position + 1,
             !.current_char = CharAt(lx.text, lx.position + 1)]

Raise(e) ==
  /\ result' = e
  /\ pc' = "done"

\* the state in which parse_expression_from_string starts on one of the texts
Start(texts) ==
  /\ text \in texts
  /\ lexer = NewLexer(text)
  /\ lpc = "get_next_token"
  /\ num_str = <<>>
  /\ start_pos = 0
  /\ tokens = <<>>
  /\ parser = None
  /\ stack = <<>>
  /\ result = None
  /\ pc = "tokenize"

Init == Start(Texts)

AtGetNextToken == pc = "tokenize" /\ lpc = "get_next_token"

\* get_next_token meets whitespace: skip_whitespace runs its first iteration
GetNextToken_Whitespace ==
  /\ AtGetNextToken
  /\ lexer.current_char # NoneChar
  /\ isspace(lexer.current_char)
  /\ lexer' = LexerAdvance(lexer)
  /\ lpc' = "skip_whitespace"
  /\ UNCHANGED <<text, num_str, start_pos, tokens, parser, stack, result, pc>>

\* one more iteration of the loop of skip_whitespace
SkipWhitespace_Step ==
  /\ pc = "tokenize" /\ lpc = "skip_whitespace"
  /\ lexer.current_char # NoneChar /\ isspace(lexer.current_char)
  /\ lexer' = LexerAdvance(lexer)
  /\ UNCHANGED <<text, lpc, num_str, start_pos, tokens, parser, stack, result, pc>>

\* the loop of skip_whitespace ends; get_next_token continues its own loop
SkipWhitespace_Return ==
  /\ pc = "tokenize" /\ lpc = "skip_whitespace"
  /\ ~(lexer.current_char # NoneChar /\ isspace(lexer.current_char))
  /\ lpc' = "get_next_token"
  /\ UNCHANGED <<text, lexer, num_str, start_pos, tokens, parser, stack, result, pc>>

\* get_next_token meets a digit: read_number starts and reads that digit
GetNextToken_Digit ==
  /\ AtGetNextToken
  /\ lexer.current_char # NoneChar
  /\ ~isspace(lexer.current_char)
  /\ isdigit(lexer.current_char)
  /\ start_pos' = lexer.position
  /\ num_str' = <<lexer.current_char>>
  /\ lexer' = LexerAdvance(lexer)
  /\ lpc' = "read_number"
  /\ UNCHANGED <<text, tokens, parser, stack, result, pc>>

InNumber(c) == c # NoneChar /\ (isdigit(c) \/ c = ".")

\* one more iteration of the loop of read_number
ReadNumber_Step ==
  /\ pc = "tokenize" /\ lpc = "read_number"
  /\ InNumber(lexer.current_char)
  /\ num_str' = Append(num_str, lexer.current_char)
  /\ lexer' = LexerAdvance(lexer)
  /\ UNCHANGED <<text, lpc, start_pos, tokens, parser, stack, result, pc>>

\* the number read_number returns, or None where float() raises
NumberToken(s, p) ==
  IF DotCount(s) > 0
  THEN IF FloatAccepts(s) THEN Token("NUMBER", FloatOf(s), p) ELSE None
  ELSE Token("NUMBER", IntOf(s), p)

\* the loop of read_number ends: the lexeme is converted and tokenize appends
ReadNumber_Return ==
  /\ pc = "tokenize" /\ lpc = "read_number"
  /\ ~InNumber(lexer.current_char)
  /\ LET token == NumberToken(num_str, start_pos) IN
       IF token = None
       THEN /\ Raise([kind |-> "FloatConversion", str |-> num_str])
            /\ UNCHANGED <<lpc, tokens>>
       ELSE /\ tokens' = Append(tokens, token)
            /\ lpc' = "get_next_token"
            /\ UNCHANGED <<result, pc>>
  /\ UNCHANGED <<text, lexer, num_str, start_pos, parser, stack>>

\* the token positioned after the character instead of at it
SymbolToken_AfterAdvance(c, p) == Token(SymbolType(c), Str(c), p + 1)

SymbolToken(c, p) == Token(SymbolType(c), Str(c), p)

\* get_next_token meets one of + - * / ( ): a one-character token
GetNextToken_Symbol ==
  /\ AtGetNextToken
  /\ lexer.current_char \in Symbols
  /\ tokens' = Append(tokens, SymbolToken(lexer.current_char, lexer.position))
  /\ lexer' = LexerAdvance(lexer)
  /\ UNCHANGED <<text, lpc, num_str, start_pos, parser, stack, result, pc>>

\* the error reporting a one-based offset
InvalidCharacter_OneBased(c, p) == [kind |-> "InvalidCharacter", char |-> c, position |-> p + 1]

InvalidCharacter(c, p) == [kind |-> "InvalidCharacter", char |-> c, position |-> p]

\* get_next_token meets any other character
GetNextToken_Invalid ==
  /\ AtGetNextToken
  /\ lexer.current_char # NoneChar
  /\ ~isspace(lexer.current_char)
  /\ ~isdigit(lexer.current_char)
  /\ lexer.current_char \notin Symbols
  /\ Raise(InvalidCharacter(lexer.current_char, lexer.position))
  /\ UNCHANGED <<text, lexer, lpc, num_str, start_pos, tokens, parser, stack>>

EOFToken(p) == Token("EOF", None, p)

\* get_next_token at the end of the text: EOF is appended and tokenize returns
GetNextToken_EOF ==
  /\ AtGetNextToken
  /\ lexer.current_char = NoneChar
  /\ tokens' = Append(tokens, EOFToken(lexer.position))
  /\ pc' = "tokenized"
  /\ UNCHANGED <<text, lexer, lpc, num_str, start_pos, parser, stack, result>>

LexerNext ==
  \/ GetNextToken_Whitespace
  \/ SkipWhitespace_Step
  \/ SkipWhitespace_Return
  \/ GetNextToken_Digit
  \/ ReadNumber_Step
  \/ ReadNumber_Return
  \/ GetNextToken_Symbol
  \/ GetNextToken_Invalid
  \/ GetNextToken_EOF

(***************************************************************************)
(* AST nodes built by the parser (the constructors imported from           *)
(* calculator).                                                            *)
(***************************************************************************)
Num(value) == [tag |-> "Num", value |-> value]
Add(left, right) == [tag |-> "Add", left |-> left, right |-> right]
Minus(left, right) == [tag |-> "Minus", left |-> left, right |-> right]
Multi(left, right) == [tag |-> "Multi", left |-> left, right |-> right]
Div(left, right) == [tag |-> "Div", left |-> left, right |-> right]
Par(expr) == [tag |-> "Par", expr |-> expr]

(***************************************************************************)
(* Parser.  The Python call stack is the sequence stack, innermost call    *)
(* last; a frame holds the function, the place it has reached and its      *)
(* locals left (also expr) and op.                                         *)
(***************************************************************************)
NewParser(toks) ==
  [tokens |-> toks, position |-> 0,
   current_token |-> IF Len(toks) > 0 THEN toks[1] ELSE None]

ParserAdvance(p) ==
  [p EXCEPT !.position = p.position + 1,
            !.current_token = IF p.position + 1 < Len(p.tokens)
                              THEN p.tokens[p.position + 2] ELSE None]

Frame(fn, at) == [fn |-> fn, at |-> at, left |-> None, op |-> None]

Top == stack[Len(stack)]
Pop(st) == SubSeq(st, 1, Len(st) - 1)
SetTop(st, f) == [st EXCEPT ![Len(st)] = f]
Call(st, at, fn) == Append(SetTop(st, [st[Len(st)] EXCEPT !.at = at]), Frame(fn, "start"))

CurrentIs(p, types) == p.current_token # None /\ p.current_token.type \in types

\* the fold of parse_expression with its operands exchanged
ExpressionNode_Swapped(op, left, right) ==
  IF op.type = "PLUS" THEN Add(right, left)
  ELSE IF op.type = "MINUS" THEN Minus(right, left)
  ELSE left

\* the folds of parse_expression and of parse_term
ExpressionNode(op, left, right) ==
  IF op.type = "PLUS" THEN Add(left, right)
  ELSE IF op.type = "MINUS" THEN Minus(left, right)
  ELSE left

\* the fold of parse_term building the node of the first branch for both operators
TermNode_MultiOnly(op, left, right) ==
  IF op.type \in {"MULTIPLY", "DIVIDE"} THEN Multi(left, right) ELSE left

TermNode(op, left, right) ==
  IF op.type = "MULTIPLY" THEN Multi(left, right)
  ELSE IF op.type = "DIVIDE" THEN Div(left, right)
  ELSE left

\* the caller's frame once the call it waits for has returned v
Resume(f, v) ==
  CASE f.fn = "parse" -> [f EXCEPT !.left = v, !.at = "check"]
    [] f.fn = "parse_expression" /\ f.at = "first" -> [f EXCEPT !.left = v, !.at = "loop"]
    [] f.fn = "parse_expression" /\ f.at = "right" ->
         [f EXCEPT !.left = ExpressionNode(f.op, f.left, v), !.at = "loop"]
    [] f.fn = "parse_term" /\ f.at = "first" -> [f EXCEPT !.left = v, !.at = "loop"]
    [] f.fn = "parse_term" /\ f.at = "right" ->
         [f EXCEPT !.left = TermNode(f.op, f.left, v), !.at = "loop"]
    [] f.fn = "parse_factor" -> [f EXCEPT !.left = v, !.at = "expect"]

\* the innermost call returns v to its caller
Return(st, v) == LET rest == Pop(st) IN SetTop(rest, Resume(rest[Len(rest)], v))

Parsing(fn, at) == pc = "parse" /\ Len(stack) > 0 /\ Top.fn = fn /\ Top.at = at

\* parse_expression_from_string: Parser(tokens), then parser.parse() is called
ParseExpressionFromString_Parser ==
  /\ pc = "tokenized"
  /\ parser' = NewParser(tokens)
  /\ stack' = <<Frame("parse", "start")>>
  /\ pc' = "parse"
  /\ UNCHANGED <<text, lexer, lpc, num_str, start_pos, tokens, result>>

Parse_Start ==
  /\ Parsing("parse", "start")
  /\ stack' = Call(stack, "wait", "parse_expression")
  /\ UNCHANGED <<text, lexer, lpc, num_str, start_pos, tokens, parser, result, pc>>

UnexpectedToken(token) == [kind |-> "UnexpectedToken", token |-> token]

\* parse without the test for a leftover token
TrailingToken_Ignored(p) == FALSE

\* the test of parse after parse_expression: a token other than EOF is left
TrailingToken(p) == p.current_token # None /\ p.current_token.type # "EOF"

Parse_Trailing ==
  /\ Parsing("parse", "check")
  /\ TrailingToken(parser)
  /\ Raise(UnexpectedToken(parser.current_token))
  /\ UNCHANGED <<text, lexer, lpc, num_str, start_pos, tokens, parser, stack>>

\* parse returns expr, which parse_expression_from_string returns
Parse_Return ==
  /\ Parsing("parse", "check")
  /\ ~TrailingToken(parser)
  /\ result' = [kind |-> "AST", ast |-> Top.left]
  /\ stack' = <<>>
  /\ pc' = "done"
  /\ UNCHANGED <<text, lexer, lpc, num_str, start_pos, tokens, parser>>

ParseExpression_Start ==
  /\ Parsing("parse_expression", "start")
  /\ stack' = Call(stack, "first", "parse_term")
  /\ UNCHANGED <<text, lexer, lpc, num_str, start_pos, tokens, parser, result, pc>>

\* one iteration of the loop of parse_expression, up to the call of parse_term
ParseExpression_Loop ==
  /\ Parsing("parse_expression", "loop")
  /\ CurrentIs(parser, {"PLUS", "MINUS"})
  /\ parser' = ParserAdvance(parser)
  /\ stack' = Call(SetTop(stack, [Top EXCEPT !.op = parser.current_token]), "right", "parse_term")
  /\ UNCHANGED <<text, lexer, lpc, num_str, start_pos, tokens, result, pc>>

ParseExpression_Return ==
  /\ Parsing("parse_expression", "loop")
  /\ ~CurrentIs(parser, {"PLUS", "MINUS"})
  /\ stack' = Return(stack, Top.left)
  /\ UNCHANGED <<text, lexer, lpc, num_str, start_pos, tokens, parser, result, pc>>

ParseTerm_Start ==
  /\ Parsing("parse_term", "start")
  /\ stack' = Call(stack, "first", "parse_factor")
  /\ UNCHANGED <<text, lexer, lpc, num_str, start_pos, tokens, parser, result, pc>>

\* one iteration of the loop of parse_term, up to the call of parse_factor
ParseTerm_Loop ==
  /\ Parsing("parse_term", "loop")
  /\ CurrentIs(parser, {"MULTIPLY", "DIVIDE"})
  /\ parser' = ParserAdvance(parser)
  /\ stack' = Call(SetTop(stack, [Top EXCEPT !.op = parser.current_token]), "right", "parse_factor")
  /\ UNCHANGED <<text, lexer, lpc, num_str, start_pos, tokens, result, pc>>

ParseTerm_Return ==
  /\ Parsing("parse_term", "loop")
  /\ ~CurrentIs(parser, {"MULTIPLY", "DIVIDE"})
  /\ stack' = Return(stack, Top.left)
  /\ UNCHANGED <<text, lexer, lpc, num_str, start_pos, tokens, parser, result, pc>>

ParseFactor_Number ==
  /\ Parsing("parse_factor", "start")
  /\ CurrentIs(parser, {"NUMBER"})
  /\ parser' = ParserAdvance(parser)
  /\ stack' = Return(stack, Num(parser.current_token.value))
  /\ UNCHANGED <<text, lexer, lpc, num_str, start_pos, tokens, result, pc>>

ParseFactor_LParen ==
  /\ Parsing("parse_factor", "start")
  /\ CurrentIs(parser, {"LPAREN"})
  /\ parser' = ParserAdvance(parser)
  /\ stack' = Call(stack, "inner", "parse_expression")
  /\ UNCHANGED <<text, lexer, lpc, num_str, start_pos, tokens, result, pc>>

AttributeError == [kind |-> "AttributeError"]

\* parse_factor reads current_token.type with no test for None; any type
\* other than NUMBER and LPAREN is an unexpected token
ParseFactor_Unexpected ==
  /\ Parsing("parse_factor", "start")
  /\ ~CurrentIs(parser, {"NUMBER", "LPAREN"})
  /\ Raise(IF parser.current_token = None THEN AttributeError
           ELSE UnexpectedToken(parser.current_token))
  /\ UNCHANGED <<text, lexer, lpc, num_str, start_pos, tokens, parser, stack>>

ExpectedToken(expected, actual) == [kind |-> "ExpectedToken", expected |-> expected, actual |-> actual]

\* expect consuming the current token whatever its type
ExpectAccepts_Any(p, token_type) == p.current_token # None

\* expect(token_type) finds the token: it is consumed
ExpectAccepts(p, token_type) == p.current_token # None /\ p.current_token.type = token_type

\* expect reporting the error of parse_factor
ExpectError_Unexpected(p, token_type) == UnexpectedToken(p.current_token)

\* the error expect(token_type) raises otherwise
ExpectError(p, token_type) ==
  ExpectedToken(token_type, IF p.current_token # None THEN p.current_token.type ELSE "EOF")

\* parse_factor, after the inner parse_expression: expect(RPAREN), then Par(expr)
ParseFactor_Expect ==
  /\ Parsing("parse_factor", "expect")
  /\ ExpectAccepts(parser, "RPAREN")
  /\ parser' = ParserAdvance(parser)
  /\ stack' = Return(stack, Par(Top.left))
  /\ UNCHANGED <<text, lexer, lpc, num_str, start_pos, tokens, result, pc>>

ParseFactor_ExpectFails ==
  /\ Parsing("parse_factor", "expect")
  /\ ~ExpectAccepts(parser, "RPAREN")
  /\ Raise(ExpectError(parser, "RPAREN"))
  /\ UNCHANGED <<text, lexer, lpc, num_str, start_pos, tokens, parser, stack>>

ParserNext ==
  \/ ParseExpressionFromString_Parser
  \/ Parse_Start
  \/ Parse_Trailing
  \/ Parse_Return
  \/ ParseExpression_Start
  \/ ParseExpression_Loop
  \/ ParseExpression_Return
  \/ ParseTerm_Start
  \/ ParseTerm_Loop
  \/ ParseTerm_Return
  \/ ParseFactor_Number
  \/ ParseFactor_LParen
  \/ ParseFactor_Unexpected
  \/ ParseFactor_Expect
  \/ ParseFactor_ExpectFails

Next == LexerNext \/ ParserNext

Spec == Init /\ [][Next]_vars

(***************************************************************************)
(* The grammar, as a definition of the derivable token sequences and of    *)
(* the tree each one stands for:                                           *)
(*   expression := term (("+" | "-") term)*                                *)
(*   term       := factor (("*" | "/") factor)*                            *)
(*   factor     := NUMBER | "(" expression ")"                             *)
(* A sequence is an expression when it is a term, or an expression, an     *)
(* additive operator and a term; likewise for terms.  The split is unique. *)
(***************************************************************************)
Types(toks) == [i \in 1..Len(toks) |-> toks[i].type]

\* the tokens before the final one (EOF in what tokenize returns)
BeforeEOF(toks) == SubSeq(toks, 1, Len(toks) - 1)

RECURSIVE IsExpression(_), IsTerm(_), IsFactor(_)
ExpressionSplits(s) ==
  {i \in 2..(Len(s) - 1) : /\ s[i] \in {"PLUS", "MINUS"}
                           /\ IsExpression(SubSeq(s, 1, i - 1))
                           /\ IsTerm(SubSeq(s, i + 1, Len(s)))}

TermSplits(s) ==
  {i \in 2..(Len(s) - 1) : /\ s[i] \in {"MULTIPLY", "DIVIDE"}
                           /\ IsTerm(SubSeq(s, 1, i - 1))
                           /\ IsFactor(SubSeq(s, i + 1, Len(s)))}

IsExpression(s) == IsTerm(s) \/ ExpressionSplits(s) # {}

IsTerm(s) == IsFactor(s) \/ TermSplits(s) # {}

IsFactor(s) ==
  \/ Len(s) = 1 /\ s[1] = "NUMBER"
  \/ /\ Len(s) >= 3
     /\ s[1] = "LPAREN"
     /\ s[Len(s)] = "RPAREN"
     /\ IsExpression(SubSeq(s, 2, Len(s) - 1))

RefNode(type, left, right) ==
  CASE type = "PLUS" -> Add(left, right)
    [] type = "MINUS" -> Minus(left, right)
    [] type = "MULTIPLY" -> Multi(left, right)
    [] type = "DIVIDE" -> Div(left, right)

\* the tree of a derivable token sequence
RECURSIVE RefExpression(_), RefTerm(_), RefFactor(_)
RefExpression(toks) ==
  LET splits == ExpressionSplits(Types(toks)) IN
    IF splits = {} THEN RefTerm(toks)
    ELSE LET i == CHOOSE j \in splits : TRUE
         IN RefNode(toks[i].type, RefExpression(SubSeq(toks, 1, i - 1)),
                    RefTerm(SubSeq(toks, i + 1, Len(toks))))

RefTerm(toks) ==
  LET splits == TermSplits(Types(toks)) IN
    IF splits = {} THEN RefFactor(toks)
    ELSE LET i == CHOOSE j \in splits : TRUE
         IN RefNode(toks[i].type, RefTerm(SubSeq(toks, 1, i - 1)),
                    RefFactor(SubSeq(toks, i + 1, Len(toks))))

RefFactor(toks) ==
  IF Len(toks) = 1 THEN Num(toks[1].value)
  ELSE Par(RefExpression(SubSeq(toks, 2, Len(toks) - 1)))

BinaryTags == {"Add", "Minus", "Multi", "Div"}

\* the values of the Num leaves of a tree, left to right
RECURSIVE Leaves(_)
Leaves(t) ==
  IF t.tag = "Num" THEN <<t.value>>
  ELSE IF t.tag = "Par" THEN Leaves(t.expr)
  ELSE Leaves(t.left) \o Leaves(t.right)

RECURSIVE ParCount(_)
ParCount(t) ==
  IF t.tag = "Num" THEN 0
  ELSE IF t.tag = "Par" THEN 1 + ParCount(t.expr)
  ELSE ParCount(t.left) + ParCount(t.right)

RECURSIVE SelectSeq2(_, _)
SelectSeq2(s, types) ==
  IF s = <<>> THEN <<>>
  ELSE IF s[1].type \in types THEN <<s[1]>> \o SelectSeq2(Tail(s), types)
  ELSE SelectSeq2(Tail(s), types)

NumberValues(toks) ==
  LET ns == SelectSeq2(toks, {"NUMBER"}) IN [i \in 1..Len(ns) |-> ns[i].value]

Done == pc = "done"
\* tokenize has returned its token sequence
Tokenized == pc = "tokenized" \/ parser # None
Accepted == Done /\ result.kind = "AST"
SyntaxErrors == {"UnexpectedToken", "ExpectedToken"}

(***************************************************************************)
(* C1: for a text that tokenizes, parse_expression_from_string returns an  *)
(* AST exactly when the tokens before EOF are derivable from the grammar,  *)
(* and fails with a syntax error, returning no AST, for every other token  *)
(* sequence.                                                               *)
(***************************************************************************)
C1_AcceptsExactlyTheGrammar ==
  (Done /\ Tokenized) =>
    /\ result.kind = "AST" <=> IsExpression(Types(BeforeEOF(tokens)))
    /\ result.kind # "AST" => result.kind \in SyntaxErrors

\* the parser returned an AST for a text with a parenthesis and an operator
C1_Witness ==
  /\ Accepted
  /\ \E i \in 1..Len(tokens) : tokens[i].type = "LPAREN"
  /\ \E i \in 1..Len(tokens) : tokens[i].type \in {"PLUS", "MINUS"}

\* a complete expression followed by another token has been rejected
C1_WitnessTrailing ==
  /\ Done /\ result.kind = "UnexpectedToken"
  /\ \E n \in 1..(Len(tokens) - 2) : IsExpression(Types(SubSeq(tokens, 1, n)))

(***************************************************************************)
(* C2: the AST returned for an accepted token sequence is the tree of the  *)
(* grammar: * and / bind tighter than + and -, operators of one tier group *)
(* from the left, each parenthesised group is one Par node, and the Num    *)
(* leaves from left to right are the NUMBER tokens in source order.        *)
(***************************************************************************)
C2_ASTIsTheGrammarTree ==
  Accepted =>
    /\ result.ast = RefExpression(BeforeEOF(tokens))
    /\ Leaves(result.ast) = NumberValues(tokens)
    /\ ParCount(result.ast) = Len(SelectSeq2(tokens, {"LPAREN"}))

\* a - b - c has been parsed to Minus(Minus(a, b), c)
C2_Witness ==
  /\ Accepted
  /\ Types(tokens) = <<"NUMBER", "MINUS", "NUMBER", "MINUS", "NUMBER", "EOF">>
  /\ result.ast = Minus(Minus(Num(tokens[1].value), Num(tokens[3].value)), Num(tokens[5].value))

\* a + b * c has been parsed to Add(a, Multi(b, c))
C2_WitnessPrecedence ==
  /\ Accepted
  /\ Types(tokens) = <<"NUMBER", "PLUS", "NUMBER", "MULTIPLY", "NUMBER", "EOF">>
  /\ result.ast = Add(Num(tokens[1].value), Multi(Num(tokens[3].value), Num(tokens[5].value)))

(***************************************************************************)
(* Where lexemes begin in a text, read off the text alone: offset q is     *)
(* inside a number when its character is a digit or a '.' that follows a   *)
(* character inside a number, and a lexeme begins at every character that  *)
(* is neither whitespace nor the continuation of a number.                 *)
(***************************************************************************)
RECURSIVE InsideNumber(_, _)
InsideNumber(t, q) ==
  /\ q >= 0 /\ q < Len(t)
  /\ \/ t[q + 1] \in Digits
     \/ t[q + 1] = "." /\ InsideNumber(t, q - 1)

LexemeStart(t, q) ==
  /\ q >= 0 /\ q < Len(t)
  /\ t[q + 1] \notin Whitespace
  /\ ~(InsideNumber(t, q) /\ InsideNumber(t, q - 1))

\* a character at which no token can start
Offending(c) == c \notin Whitespace /\ c \notin Digits /\ c \notin Symbols

\* the offset after the maximal run of digits and '.' that contains offset q
RECURSIVE RunEnd(_, _)
RunEnd(t, q) ==
  IF q < Len(t) /\ (t[q + 1] \in Digits \/ t[q + 1] = ".") THEN RunEnd(t, q + 1) ELSE q

(***************************************************************************)
(* C3: when get_next_token stands, at the start of a token, on a character *)
(* that is not whitespace, a digit or one of + - * / ( ), tokenize fails   *)
(* with the invalid-character error that carries that character and its    *)
(* zero-based offset, the leftmost such start of a lexeme, and no token    *)
(* sequence is returned.                                                   *)
(***************************************************************************)
C3_ErrorNamesTheCharacter ==
  result.kind = "InvalidCharacter" =>
    /\ Done /\ ~Tokenized
    /\ result.position \in 0..(Len(text) - 1)
    /\ result.char = text[result.position + 1]
    /\ Offending(result.char)
    /\ LexemeStart(text, result.position)
    /\ \A q \in 0..(result.position - 1) : LexemeStart(text, q) => ~Offending(text[q + 1])

C3_OffendingCharacterFails ==
  (AtGetNextToken /\ lexer.current_char # NoneChar /\ Offending(lexer.current_char)) =>
    /\ result' = [kind |-> "InvalidCharacter", char |-> lexer.current_char,
                  position |-> lexer.position]
    /\ pc' = "done"
    /\ tokens' = tokens /\ parser' = None

C3_InvalidCharacter == [](result = None \/ C3_ErrorNamesTheCharacter) /\ [][C3_OffendingCharacterFails]_vars

\* the error names a character that follows leading whitespace and a token
C3_Witness ==
  /\ Done /\ result.kind = "InvalidCharacter"
  /\ result.position = 2 /\ result.char = "&"
  /\ Len(tokens) = 1 /\ text[2] = " "

(***************************************************************************)
(* C4: a token sequence that becomes an expression when one or more RPAREN *)
(* are appended before EOF makes parse fail in expect, with the error that *)
(* expected RPAREN and found the end of input; no AST and no other error.  *)
(***************************************************************************)
RParens(k) == [i \in 1..k |-> "RPAREN"]

UnmatchedLeftParenthesis(types) ==
  \E k \in 1..Len(types) : IsExpression(types \o RParens(k))

C4_UnmatchedParenthesis ==
  (Done /\ Tokenized /\ UnmatchedLeftParenthesis(Types(BeforeEOF(tokens)))) =>
    result = [kind |-> "ExpectedToken", expected |-> "RPAREN", actual |-> "EOF"]

\* "( a + b" has been rejected
C4_Witness ==
  /\ Done
  /\ Types(tokens) = <<"LPAREN", "NUMBER", "PLUS", "NUMBER", "EOF">>
  /\ result.kind = "ExpectedToken"

(***************************************************************************)
(* C5: a grammatical text with a division by the literal 0 is parsed to an *)
(* AST with a Div node whose right child is that Num; whether a text is    *)
(* accepted and the shape of its AST are functions of the token types      *)
(* alone, never of the value of a NUMBER.                                  *)
(***************************************************************************)
IsZero(value) == value.m = 0

DivisionsByZero(toks) ==
  {i \in 1..(Len(toks) - 1) : /\ toks[i].type = "DIVIDE"
                              /\ toks[i + 1].type = "NUMBER"
                              /\ IsZero(toks[i + 1].value)}

RECURSIVE HasDivBy(_, _)
HasDivBy(t, value) ==
  IF t.tag = "Num" THEN FALSE
  ELSE IF t.tag = "Par" THEN HasDivBy(t.expr, value)
  ELSE \/ t.tag = "Div" /\ t.right = Num(value)
       \/ HasDivBy(t.left, value)
       \/ HasDivBy(t.right, value)

\* a tree with the values of its leaves erased
RECURSIVE Shape(_)
Shape(t) ==
  IF t.tag = "Num" THEN Num(None)
  ELSE IF t.tag = "Par" THEN Par(Shape(t.expr))
  ELSE [t EXCEPT !.left = Shape(t.left), !.right = Shape(t.right)]

Erased(toks) == [i \in 1..Len(toks) |-> Token(toks[i].type, None, 0)]

C5_DivisionByZeroParses ==
  (Done /\ Tokenized) =>
    /\ (IsExpression(Types(BeforeEOF(tokens))) /\ DivisionsByZero(tokens) # {}) =>
         /\ result.kind = "AST"
         /\ \A i \in DivisionsByZero(tokens) : HasDivBy(result.ast, tokens[i + 1].value)
    /\ result.kind = "AST" => Shape(result.ast) = RefExpression(Erased(BeforeEOF(tokens)))
    /\ result.kind # "AST" => ~IsExpression(Types(BeforeEOF(tokens)))

\* a / 0 has been parsed to Div(a, Num(0))
C5_Witness ==
  /\ Accepted
  /\ Types(tokens) = <<"NUMBER", "DIVIDE", "NUMBER", "EOF">>
  /\ tokens[3].value = IntOf(<<"0">>)
  /\ result.ast = Div(Num(tokens[1].value), Num(IntOf(<<"0">>)))

(***************************************************************************)
(* C6: what tokenize returns is non-empty, ends with the EOF token, has no *)
(* other EOF token, and is in source order: each token is positioned at    *)
(* the zero-based offset where its lexeme begins, positions strictly       *)
(* increasing.                                                             *)
(***************************************************************************)
LexemeBeginsAt(t, token) ==
  CASE token.type = "EOF" -> token.position = Len(t)
    [] token.type = "NUMBER" ->
         /\ LexemeStart(t, token.position)
         /\ t[token.position + 1] \in Digits
    [] OTHER ->
         /\ LexemeStart(t, token.position)
         /\ token.value = Str(t[token.position + 1])
         /\ token.type = SymbolType(t[token.position + 1])

C6_TokenSequence ==
  Tokenized =>
    /\ Len(tokens) >= 1
    /\ tokens[Len(tokens)].type = "EOF"
    /\ \A i \in 1..(Len(tokens) - 1) : tokens[i].type # "EOF"
    /\ \A i \in 1..Len(tokens) : LexemeBeginsAt(text, tokens[i])
    /\ \A i \in 1..(Len(tokens) - 1) : tokens[i].position < tokens[i + 1].position

\* tokenize returned tokens separated by whitespace
C6_Witness ==
  /\ Tokenized
  /\ Len(tokens) = 3
  /\ tokens[1].position = 1 /\ tokens[2].position = 3 /\ tokens[2].type = "RPAREN"

(***************************************************************************)
(* C7: read_number consumes every maximal run of digits and '.' that       *)
(* starts with a digit, runs with several '.' included, and yields one     *)
(* NUMBER token at the first character of the run, a decimal if the run    *)
(* has a '.' and an integer otherwise; the lexer fails in no other way     *)
(* than with the invalid-character error.                                  *)
(***************************************************************************)
HasDot(t, q) == \E i \in (q + 1)..RunEnd(t, q) : t[i] = "."

\* read_number has returned from the run that begins at offset q
RunRead(q) ==
  /\ LexemeStart(text, q) /\ text[q + 1] \in Digits
  /\ lexer.position >= RunEnd(text, q)
  /\ ~(lpc = "read_number" /\ start_pos = q /\ pc = "tokenize")

C7_EveryRunIsOneNumber ==
  /\ (Done /\ ~Tokenized) => result.kind = "InvalidCharacter"
  /\ \A q \in 0..(Len(text) - 1) :
       RunRead(q) =>
         /\ Cardinality({i \in 1..Len(tokens) : tokens[i].position = q}) = 1
         /\ \E i \in 1..Len(tokens) :
              /\ tokens[i].position = q
              /\ tokens[i].type = "NUMBER"
              /\ tokens[i].value.isfloat = HasDot(text, q)

(***************************************************************************)
(* C8: no Parser exists before tokenize has produced the EOF token, so a   *)
(* text with an invalid character anywhere ends in the invalid-character   *)
(* error, also when a syntax error lies at an earlier offset, and a syntax *)
(* error is reported only for a text that tokenizes completely.            *)
(***************************************************************************)
ContainsInvalidCharacter(t) ==
  \E q \in 0..(Len(t) - 1) : LexemeStart(t, q) /\ Offending(t[q + 1])

C8_LexingBeforeParsing ==
  /\ (parser # None \/ stack # <<>>) =>
       /\ Len(tokens) >= 1
       /\ tokens[Len(tokens)].type = "EOF"
       /\ lexer.position = Len(text)
  /\ (Done /\ ContainsInvalidCharacter(text)) => result.kind = "InvalidCharacter"
  /\ (Done /\ result.kind \in SyntaxErrors) => (Tokenized /\ ~ContainsInvalidCharacter(text))

(***************************************************************************)
(* C9: in every state of the parser the cursor is an index of tokens,      *)
(* current_token is the token at the cursor and is never None; advance is  *)
(* never called on the EOF token, so parse_factor always finds a token;    *)
(* a failed expect leaves the cursor where it was.                         *)
(***************************************************************************)
C9_CursorOnAToken ==
  parser # None =>
    /\ parser.position \in 0..(Len(parser.tokens) - 1)
    /\ parser.current_token # None
    /\ parser.current_token = parser.tokens[parser.position + 1]
    /\ Done => result # AttributeError

C9_AdvanceNotOnEOF ==
  (parser # None /\ parser' # parser) =>
    /\ parser.current_token # None
    /\ parser.current_token.type # "EOF"
    /\ parser'.position = parser.position + 1

C9_FailedExpectKeepsCursor ==
  (parser # None /\ result'.kind = "ExpectedToken") => parser' = parser

C9_ParserCursor ==
  /\ []C9_CursorOnAToken
  /\ [][C9_AdvanceNotOnEOF]_vars
  /\ [][result' # result => C9_FailedExpectKeepsCursor]_vars

\* expect has failed with the cursor on the EOF token
C9_Witness ==
  /\ Done /\ result.kind = "ExpectedToken"
  /\ parser.position = Len(tokens) - 1
  /\ parser.current_token.type = "EOF"
  /\ Len(tokens) >= 3

(***************************************************************************)
(* C10: tokenize and parse end on every text: every iteration of the loops *)
(* of skip_whitespace, read_number, get_next_token, parse_expression and   *)
(* parse_term and every call of parse_expression by parse_factor moves the *)
(* cursor forward, the lexer cursor never exceeds len(text), and at most   *)
(* len(text) + 1 tokens are produced.                                      *)
(***************************************************************************)
\* No step waits for anything: the interpreter runs the call to its end.
FairInit == Start(TextsOver(Alphabet, MaxLen))

FairSpec == FairInit /\ [][Next]_vars /\ WF_vars(Next)

C10_Bounded ==
  /\ lexer.position \in 0..Len(text)
  /\ Len(tokens) <= Len(text) + 1
  /\ parser # None => parser.position < Len(tokens)

\* a step of the lexer other than the return from skip_whitespace or read_number
C10_LexerProgress ==
  (pc = "tokenize" /\ pc' = "tokenize" /\ ~(lpc # "get_next_token" /\ lpc' = "get_next_token")) =>
    lexer'.position = lexer.position + 1

\* a step of the parser that makes a call from a loop or from parse_factor
C10_ParserProgress ==
  (pc = "parse" /\ Len(stack') > Len(stack) /\ (Top.at = "loop" \/ Top.fn = "parse_factor")) =>
    parser'.position = parser.position + 1

C10_Terminates ==
  /\ <>Done
  /\ []C10_Bounded
  /\ [][C10_LexerProgress /\ C10_ParserProgress]_vars

\* a parenthesised text of as many tokens as a text can give has been parsed
C10_Witness ==
  /\ Accepted
  /\ Len(tokens) = Len(text) + 1
  /\ Len(text) >= 3
  /\ \E i \in 1..Len(tokens) : tokens[i].type = "LPAREN"
====
